---- MODULE Spec2Model ----
(***************************************************************************)
(* KnowledgeIndexer (your_assistant/core/indexer.py): the incremental      *)
(* indexing pipeline.  The state is the storage directory (the record file *)
(* index_record.json, the vector index directory, the local files), the    *)
(* KnowledgeIndexer objects living over that storage, and the position of  *)
(* the one index() call in progress.  index() calls never overlap (the     *)
(* pipeline is single-threaded); a process may stop between any two steps. *)
(***************************************************************************)
EXTENDS Integers, Sequences, FiniteSets, Bags, TLC

VARIABLES
    recordFile,    \* <db_name>/index_record.json on disk
    indexDir,      \* <db_name>/index on disk (the persisted FAISS index)
    files,         \* the other files that exist on the local disk
    inst,          \* the KnowledgeIndexer objects
    call,          \* the index() call in progress, and its position
    calls,         \* index() calls started so far
    everRecorded,  \* history: source ids the record file has held between calls
    lastDone       \* history: how the most recent index() call ended

vars == <<recordFile, indexDir, files, inst, call, calls, everRecorded, lastDone>>

\* ------------------------------------------------------------------ bounds

\* index() calls in one behaviour.
MaxCalls == 3

\* ------------------------------------------------------------------ inputs

\* Two indexer objects over the same db_name.
Instances == {"A", "B"}

\* The url given to index(), and where the downloader stores it.
TheUrl == "http://h/c.epub"

DownloadPath == "dl/c.epub"

\* Paths given to index(): three local files that exist, one that does not,
\* and one url.
Paths == {"a.txt", "e.pdf", "notes.docx", "gone.txt", TheUrl}

\* The local files that exist before any call.
InputFiles == {"a.txt", "e.pdf", "notes.docx"}

\* (chunk_size, chunk_overlap) pairs given to index().
ChunkParams == {<<2, 1>>, <<1, 1>>}

\* batch_size values given to index().
BatchSizes == {1, 2, 3}

\* Number of tokens the loader extracts from a file.
TokenCount(path) ==
    CASE path = "a.txt" -> 3
      [] path = DownloadPath -> 2
      [] OTHER -> 0

\* ------------------------------------------------------------ pure helpers

Range(s) == {s[k] : k \in 1..Len(s)}

Min(a, b) == IF a < b THEN a ELSE b

\* The orders in which list(a_set) may enumerate a set.
ListsOf(S) ==
    {f \in [1..Cardinality(S) -> S] : \A a, b \in 1..Cardinality(S) : f[a] = f[b] => a = b}

\* urlparse(path): scheme and netloc.
urlparse(path) ==
    IF path = TheUrl
    THEN [scheme |-> "http", netloc |-> "h"]
    ELSE [scheme |-> "", netloc |-> ""]

\* os.path.splitext(path)[1]
splitext(path) ==
    CASE path \in {"a.txt", "gone.txt"} -> ".txt"
      [] path = "e.pdf" -> ".pdf"
      [] path = "notes.docx" -> ".docx"
      [] path \in {TheUrl, DownloadPath} -> ".epub"
      [] OTHER -> ""

_FILE_EXTENSIONS == {".pdf", ".mobi", ".epub", ".txt", ".html"}

\* utils.file_downloader(url): (source, path) of a finished download.
file_downloader(url) == [source |-> url, path |-> DownloadPath]

\* The loader class _init_loader picks for an extension.
LoaderFor(extension) ==
    CASE extension = ".mobi" -> "MobiLoader"
      [] extension = ".epub" -> "EpubLoader"
      [] OTHER -> "UnstructuredFileLoader"

\* TokenTextSplitter: windows of chunk_size tokens that start every
\* chunk_size - chunk_overlap tokens, from token `start` on.
RECURSIVE SplitFrom(_, _, _, _, _)
SplitFrom(path, n, start, chunk_size, chunk_overlap) ==
    IF start >= n
    THEN <<>>
    ELSE <<[source |-> path, start |-> start, end |-> Min(start + chunk_size, n)]>>
         \o SplitFrom(path, n, start + (chunk_size - chunk_overlap), chunk_size, chunk_overlap)

\* loader.load_and_split(text_splitter=TokenTextSplitter(chunk_size, chunk_overlap))
load_and_split(path, chunk_size, chunk_overlap) ==
    SplitFrom(path, TokenCount(path), 0, chunk_size, chunk_overlap)

\* for doc in documents: doc.metadata["source"] = source
TagSource(documents, source) ==
    [k \in 1..Len(documents) |-> [documents[k] EXCEPT !.source = source]]

\* utils.chunk_list(documents, batch_size): number of batches, and batch k (from 0).
NumBatches(documents, batch_size) ==
    (Len(documents) + batch_size - 1) \div batch_size

chunk_list(documents, batch_size, k) ==
    SubSeq(documents, k * batch_size + 1, Min((k + 1) * batch_size, Len(documents)))

\* FAISS.from_documents(document_batch, embeddings): the sub-index of a batch.
RECURSIVE from_documents(_)
from_documents(batch) ==
    IF batch = <<>>
    THEN EmptyBag
    ELSE SetToBag({Head(batch)}) (+) from_documents(Tail(batch))

\* Mutant of merge_from: the merged index holds only the new batch.
merge_from_replacing(db, new_db) == new_db

\* db.merge_from(new_db)
merge_from(db, new_db) == db (+) new_db

\* ------------------------------------------------------------ the record file

\* Neither the db_name directory nor the record file exists.
NoDirFile == [st |-> "nodir", indexed_doc |-> <<>>]

\* The db_name directory exists, the record file does not.
AbsentFile == [st |-> "absent", indexed_doc |-> <<>>]

\* A record file whose JSON text was cut short.
PartialFile == [st |-> "partial", indexed_doc |-> <<>>]

\* Path.touch() / open("w"): a file of zero bytes.
EmptyFile == [st |-> "empty", indexed_doc |-> <<>>]

\* json.dump({"indexed_doc": a_list}, f)
JsonFile(list) == [st |-> "json", indexed_doc |-> list]

\* json.load(f), a JSONDecodeError giving {}, and set(...) of the result.
LoadRecord(file) ==
    IF file.st = "json" THEN Range(file.indexed_doc) ELSE {}

\* ------------------------------------------------------------------ state

NoIndex == [exists |-> FALSE, docs |-> EmptyBag]

NoResult == [type |-> "", text |-> ""]

NoneDone == [outcome |-> "none", source |-> ""]

\* outcome, source and result are those of the object's last finished call.
NoInstance ==
    [alive |-> FALSE, indexed_doc |-> {}, outcome |-> "none", source |-> "",
     result |-> NoResult]

IdleCall ==
    [pc |-> "idle", i |-> "", path |-> "", chunk_size |-> 0, chunk_overlap |-> 0,
     batch_size |-> 0, local |-> "", source |-> "", filepath |-> "", loader |-> "",
     documents |-> <<>>, db |-> NoIndex, idx |-> 0,
     embeds |-> 0, merges |-> 0, saves |-> 0, io |-> {}, deleted |-> {},
     snapIndex |-> NoIndex, snapRecord |-> AbsentFile, snapMem |-> {},
     outcome |-> "none", result |-> NoResult]

Init ==
    /\ recordFile = NoDirFile
    /\ indexDir = NoIndex
    /\ files = InputFiles
    /\ inst = [i \in Instances |-> NoInstance]
    /\ call = IdleCall
    /\ calls = 0
    /\ everRecorded = {}
    /\ lastDone = NoneDone

\* An exception leaves the call: the caller of index() gets `type` and `text`.
Raise(c, cause, type, text) ==
    [c EXCEPT !.pc = "raised", !.outcome = cause, !.result = [type |-> type, text |-> text]]

LoaderInitError == "Error happens when initialize the data loader."


\* ------------------------------------------------------------- __init__

\* Mutant of EnsureRecordFile: the directory is not made, so touch() cannot
\* create the file in a missing directory.
EnsureRecordFileNoMakedirs(file) ==
    IF file.st = "absent" THEN EmptyFile ELSE file

\* __init__, when the record file does not exist: os.makedirs of its
\* directory when that is missing, then touch().
EnsureRecordFile(file) ==
    IF file.st \in {"nodir", "absent"} THEN EmptyFile ELSE file

\* KnowledgeIndexer(db_name): create the record file when it is missing, then
\* open and load it. A file that still does not exist makes the constructor
\* raise: there is no object then.
Construct(i) ==
    /\ call.pc = "idle"
    /\ recordFile' = EnsureRecordFile(recordFile)
    /\ inst' = [inst EXCEPT ![i] =
                   IF recordFile'.st \in {"nodir", "absent"}
                   THEN [NoInstance EXCEPT
                            !.outcome = "init_raised",
                            !.result = [type |-> "FileNotFoundError", text |-> ""]]
                   ELSE [alive |-> TRUE, indexed_doc |-> LoadRecord(recordFile'),
                         outcome |-> "none", source |-> "", result |-> NoResult]]
    /\ UNCHANGED <<indexDir, files, call, calls, everRecorded, lastDone>>

\* ---------------------------------------------------------------- index()

\* Mutant of Index: the record file is unlinked as the call starts.
IndexUnlinkFirst(i, path, chunk_size, chunk_overlap, batch_size) ==
    /\ call.pc = "idle"
    /\ inst[i].alive
    /\ calls < MaxCalls
    /\ call' = [IdleCall EXCEPT
                   !.pc = "init_loader", !.i = i, !.path = path, !.local = path,
                   !.chunk_size = chunk_size, !.chunk_overlap = chunk_overlap,
                   !.batch_size = batch_size,
                   !.snapIndex = indexDir, !.snapRecord = recordFile,
                   !.snapMem = inst[i].indexed_doc]
    /\ calls' = calls + 1
    /\ lastDone' = NoneDone
    /\ recordFile' = AbsentFile
    /\ UNCHANGED <<indexDir, files, inst, everRecorded>>

\* index(path, chunk_size, chunk_overlap, batch_size) is entered on object i.
Index(i, path, chunk_size, chunk_overlap, batch_size) ==
    /\ call.pc = "idle"
    /\ inst[i].alive
    /\ calls < MaxCalls
    /\ call' = [IdleCall EXCEPT
                   !.pc = "init_loader", !.i = i, !.path = path, !.local = path,
                   !.chunk_size = chunk_size, !.chunk_overlap = chunk_overlap,
                   !.batch_size = batch_size,
                   !.snapIndex = indexDir, !.snapRecord = recordFile,
                   !.snapMem = inst[i].indexed_doc]
    /\ calls' = calls + 1
    /\ lastDone' = NoneDone
    /\ UNCHANGED <<recordFile, indexDir, files, inst, everRecorded>>

IsUrl(path) == urlparse(path).scheme # "" /\ urlparse(path).netloc # ""

\* _init_loader, the url branch: source, path = utils.file_downloader(url=path)
Download ==
    /\ call.pc = "init_loader"
    /\ IsUrl(call.path)
    /\ LET got == file_downloader(call.path) IN
        /\ files' = files \cup {got.path}
        /\ call' = [call EXCEPT !.pc = "downloaded", !.source = got.source,
                                !.local = got.path, !.io = @ \cup {"download"}]
    /\ UNCHANGED <<recordFile, indexDir, inst, calls, everRecorded, lastDone>>

\* The downloader fails: a ValueError of its is re-raised by _init_loader as
\* its own ValueError, any other exception leaves index() as it is.
DownloadFail ==
    /\ call.pc = "init_loader"
    /\ IsUrl(call.path)
    /\ \E wrapped \in BOOLEAN :
          call' = IF wrapped
                  THEN Raise([call EXCEPT !.io = @ \cup {"download"}],
                             "download", "ValueError", LoaderInitError)
                  ELSE Raise([call EXCEPT !.io = @ \cup {"download"}],
                             "download", "DownloadError", "")
    /\ UNCHANGED <<recordFile, indexDir, files, inst, calls, everRecorded, lastDone>>

\* _init_loader, from os.path.exists(path) on: the file must exist and have
\* a supported extension; both failures are re-raised as one ValueError.
CheckFile ==
    /\ \/ call.pc = "init_loader" /\ ~IsUrl(call.path)
       \/ call.pc = "downloaded"
    /\ LET path == call.local
           extension == splitext(path)
           c == [call EXCEPT !.io = @ \cup {"exists"}]
       IN  call' =
             IF path \in files
             THEN IF extension \notin _FILE_EXTENSIONS
                  THEN Raise(c, "unsupported", "ValueError", LoaderInitError)
                  ELSE [c EXCEPT !.pc = "extract", !.loader = LoaderFor(extension),
                                 !.source = path]
             ELSE Raise(c, "notfound", "ValueError", LoaderInitError)
    /\ UNCHANGED <<recordFile, indexDir, files, inst, calls, everRecorded, lastDone>>

ChunkSizeError == "Chunk size must be larger than chunk overlap."

\* _extract_data: the chunk_size check, then loader.load_and_split.
ExtractData ==
    /\ call.pc = "extract"
    /\ call' =
         IF call.chunk_size <= call.chunk_overlap
         THEN Raise(call, "config", "ValueError", ChunkSizeError)
         ELSE [call EXCEPT
                  !.pc = "dedup", !.io = @ \cup {"load"},
                  !.documents = load_and_split(call.local, call.chunk_size,
                                               call.chunk_overlap)]
    /\ UNCHANGED <<recordFile, indexDir, files, inst, calls, everRecorded, lastDone>>

\* loader.load_and_split raises (the file cannot be parsed).
ExtractFail ==
    /\ call.pc = "extract"
    /\ call.chunk_size > call.chunk_overlap
    /\ call' = Raise([call EXCEPT !.io = @ \cup {"load"}], "extract", "LoaderError", "")
    /\ UNCHANGED <<recordFile, indexDir, files, inst, calls, everRecorded, lastDone>>

\* _index_embeddings, to the end of the for loop that tags the documents:
\* return at once when the source is in the object's indexed_doc.
DedupGate ==
    /\ call.pc = "dedup"
    /\ call' =
         IF call.source \in inst[call.i].indexed_doc
         THEN [call EXCEPT !.pc = "cleanup", !.outcome = "skipped"]
         ELSE [call EXCEPT !.pc = "load_db",
                           !.documents = TagSource(call.documents, call.source)]
    /\ UNCHANGED <<recordFile, indexDir, files, inst, calls, everRecorded, lastDone>>

\* db = None; if os.path.exists(db_index_name): db = FAISS.load_local(...)
LoadDb ==
    /\ call.pc = "load_db"
    /\ call' = [call EXCEPT !.pc = "batch", !.idx = 0,
                            !.db = IF indexDir.exists THEN indexDir ELSE NoIndex]
    /\ UNCHANGED <<recordFile, indexDir, files, inst, calls, everRecorded, lastDone>>

\* Mutant of EmbedBatch: the index is saved after every batch.
EmbedBatchSaving ==
    /\ call.pc = "batch"
    /\ call.idx < NumBatches(call.documents, call.batch_size)
    /\ LET new_db == from_documents(chunk_list(call.documents, call.batch_size, call.idx))
           db == IF call.db.exists
                 THEN [exists |-> TRUE, docs |-> merge_from(call.db.docs, new_db)]
                 ELSE [exists |-> TRUE, docs |-> new_db]
       IN  /\ call' = [call EXCEPT !.idx = @ + 1, !.embeds = @ + 1, !.db = db,
                                   !.merges = IF call.db.exists THEN @ + 1 ELSE @]
           /\ indexDir' = db
    /\ UNCHANGED <<recordFile, files, inst, calls, everRecorded, lastDone>>

\* Mutant of EmbedBatch: FAISS.from_documents is called once per document of
\* the batch.
EmbedBatchPerDocument ==
    /\ call.pc = "batch"
    /\ call.idx < NumBatches(call.documents, call.batch_size)
    /\ LET batch == chunk_list(call.documents, call.batch_size, call.idx)
           new_db == from_documents(batch)
       IN  call' = [call EXCEPT
                       !.idx = @ + 1, !.embeds = @ + Len(batch),
                       !.merges = IF call.db.exists THEN @ + 1 ELSE @,
                       !.db = IF call.db.exists
                              THEN [exists |-> TRUE, docs |-> merge_from(call.db.docs, new_db)]
                              ELSE [exists |-> TRUE, docs |-> new_db]]
    /\ UNCHANGED <<recordFile, indexDir, files, inst, calls, everRecorded, lastDone>>

\* One turn of the batch loop: embed batch idx, merge it into db (or make it db).
EmbedBatch ==
    /\ call.pc = "batch"
    /\ call.idx < NumBatches(call.documents, call.batch_size)
    /\ LET new_db == from_documents(chunk_list(call.documents, call.batch_size, call.idx))
       IN  call' = [call EXCEPT
                       !.idx = @ + 1, !.embeds = @ + 1,
                       !.merges = IF call.db.exists THEN @ + 1 ELSE @,
                       !.db = IF call.db.exists
                              THEN [exists |-> TRUE, docs |-> merge_from(call.db.docs, new_db)]
                              ELSE [exists |-> TRUE, docs |-> new_db]]
    /\ UNCHANGED <<recordFile, indexDir, files, inst, calls, everRecorded, lastDone>>

\* FAISS.from_documents raises on batch idx: the exception leaves index().
EmbedFail ==
    /\ call.pc = "batch"
    /\ call.idx < NumBatches(call.documents, call.batch_size)
    /\ call' = Raise([call EXCEPT !.embeds = @ + 1], "embedding", "EmbeddingError", "")
    /\ UNCHANGED <<recordFile, indexDir, files, inst, calls, everRecorded, lastDone>>

\* Mutant of SaveLocal: the save is skipped when db is None, and the call
\* goes on to the record.
SaveLocalIfAny ==
    /\ call.pc = "batch"
    /\ call.idx = NumBatches(call.documents, call.batch_size)
    /\ IF call.db.exists
       THEN /\ indexDir' = call.db
            /\ call' = [call EXCEPT !.pc = "unlink", !.saves = @ + 1]
       ELSE /\ indexDir' = indexDir
            /\ call' = [call EXCEPT !.pc = "unlink"]
    /\ UNCHANGED <<recordFile, files, inst, calls, everRecorded, lastDone>>

\* Mutant of SaveLocal: the merged index is not written to disk.
SaveLocalNoWrite ==
    /\ call.pc = "batch"
    /\ call.idx = NumBatches(call.documents, call.batch_size)
    /\ indexDir' = indexDir
    /\ call' = IF call.db.exists
               THEN [call EXCEPT !.pc = "unlink", !.saves = @ + 1]
               ELSE Raise(call, "nodb", "AttributeError", "")
    /\ UNCHANGED <<recordFile, files, inst, calls, everRecorded, lastDone>>

\* After the loop: db.save_local(db_index_name); db is still None when there
\* was no index on disk and no batch.
SaveLocal ==
    /\ call.pc = "batch"
    /\ call.idx = NumBatches(call.documents, call.batch_size)
    /\ IF call.db.exists
       THEN /\ indexDir' = call.db
            /\ call' = [call EXCEPT !.pc = "unlink", !.saves = @ + 1]
       ELSE /\ indexDir' = indexDir
            /\ call' = Raise(call, "nodb", "AttributeError", "")
    /\ UNCHANGED <<recordFile, files, inst, calls, everRecorded, lastDone>>

\* indexed_doc.add(source), then index_record_path.unlink().
UnlinkRecord ==
    /\ call.pc = "unlink"
    /\ inst' = [inst EXCEPT ![call.i].indexed_doc = @ \cup {call.source}]
    /\ IF recordFile.st = "absent"
       THEN /\ recordFile' = recordFile
            /\ call' = Raise(call, "norecord", "FileNotFoundError", "")
       ELSE /\ recordFile' = AbsentFile
            /\ call' = [call EXCEPT !.pc = "open_w"]
    /\ UNCHANGED <<indexDir, files, calls, everRecorded, lastDone>>

\* index_record_path.open("w")
OpenRecord ==
    /\ call.pc = "open_w"
    /\ recordFile' = EmptyFile
    /\ call' = [call EXCEPT !.pc = "dump"]
    /\ UNCHANGED <<indexDir, files, inst, calls, everRecorded, lastDone>>

\* Mutant of DumpRecord: the list written is indexed_doc as it was before
\* the source was added.
DumpRecordStale ==
    /\ call.pc = "dump"
    /\ \E list \in ListsOf(call.snapMem) :
        /\ recordFile' = JsonFile(list)
        /\ everRecorded' = everRecorded \cup Range(list)
    /\ call' = [call EXCEPT !.pc = "cleanup", !.outcome = "indexed"]
    /\ UNCHANGED <<indexDir, files, inst, calls, lastDone>>

\* json.dump(index_record, f) of indexed_doc as a list, and the file is closed.
DumpRecord ==
    /\ call.pc = "dump"
    /\ \E list \in ListsOf(inst[call.i].indexed_doc) :
        /\ recordFile' = JsonFile(list)
        /\ everRecorded' = everRecorded \cup Range(list)
    /\ call' = [call EXCEPT !.pc = "cleanup", !.outcome = "indexed"]
    /\ UNCHANGED <<indexDir, files, inst, calls, lastDone>>

IndexFinished == "Index finished."

\* index(), after _index_embeddings: remove filepath when it exists, and return.
Cleanup ==
    /\ call.pc = "cleanup"
    /\ IF call.filepath \in files
       THEN /\ files' = files \ {call.filepath}
            /\ call' = [call EXCEPT !.pc = "returned", !.deleted = @ \cup {call.filepath},
                                    !.result = [type |-> "str", text |-> IndexFinished]]
       ELSE /\ files' = files
            /\ call' = [call EXCEPT !.pc = "returned",
                                    !.result = [type |-> "str", text |-> IndexFinished]]
    /\ UNCHANGED <<recordFile, indexDir, inst, calls, everRecorded, lastDone>>

\* The caller has the call's return value or exception.
Finish ==
    /\ call.pc \in {"returned", "raised"}
    /\ inst' = [inst EXCEPT ![call.i].outcome = call.outcome,
                            ![call.i].source = call.source,
                            ![call.i].result = call.result]
    /\ lastDone' = [outcome |-> call.outcome, source |-> call.source]
    /\ call' = IdleCall
    /\ UNCHANGED <<recordFile, indexDir, files, calls, everRecorded>>

\* The process stops while json.dump writes: the record file holds the
\* beginning of the JSON text.
CrashInDump ==
    /\ call.pc = "dump"
    /\ recordFile' = PartialFile
    /\ inst' = [inst EXCEPT ![call.i] = NoInstance]
    /\ lastDone' = [outcome |-> "crashed", source |-> call.source]
    /\ call' = IdleCall
    /\ UNCHANGED <<indexDir, files, calls, everRecorded>>

\* The process running the call stops: its object is gone, the disk stays.
Crash ==
    /\ call.pc # "idle"
    /\ inst' = [inst EXCEPT ![call.i] = NoInstance]
    /\ lastDone' = [outcome |-> "crashed", source |-> call.source]
    /\ call' = IdleCall
    /\ UNCHANGED <<recordFile, indexDir, files, calls, everRecorded>>

Next ==
    \/ \E i \in Instances : Construct(i)
    \/ \E i \in Instances, path \in Paths, cp \in ChunkParams, bs \in BatchSizes :
          Index(i, path, cp[1], cp[2], bs)
    \/ Download
    \/ DownloadFail
    \/ CheckFile
    \/ ExtractData
    \/ ExtractFail
    \/ DedupGate
    \/ LoadDb
    \/ EmbedBatch
    \/ EmbedFail
    \/ SaveLocal
    \/ UnlinkRecord
    \/ OpenRecord
    \/ DumpRecord
    \/ Cleanup
    \/ Finish
    \/ Crash
    \/ CrashInDump

Spec == Init /\ [][Next]_vars


\* ------------------------------------------------------------------ claims

\* The documents of source under the chunking parameters cp, as they are indexed.
ChunksAt(source, cp) == Range(TagSource(load_and_split(source, cp[1], cp[2]), source))

\* The documents of the persisted index that belong to source.
IndexedChunksOf(source) == {d \in BagToSet(indexDir.docs) : d.source = source}

\* C1: when index() is called for a source id that a call over the same
\* storage has indexed before (that call returned), the second call makes no
\* embedding call and does not rewrite the index, and the persisted index holds
\* each chunk of the source exactly once.
C1_IdempotentPerSource ==
    (/\ call.pc # "idle"
     /\ \E j \in Instances :
           inst[j].outcome = "indexed" /\ inst[j].source = call.source)
    => /\ call.embeds = 0
       /\ call.saves = 0
       /\ indexDir = call.snapIndex
       /\ \A d \in IndexedChunksOf(call.source) : CopiesIn(d, indexDir.docs) = 1

\* C2: the status returned by a call that skipped an already recorded source
\* differs from the status returned by a call that indexed its source.
C2_SkippedStatusDistinct ==
    \A i, j \in Instances :
        (inst[i].outcome = "skipped" /\ inst[j].outcome = "indexed")
        => inst[i].result # inst[j].result

\* C3: every source id in the record file on disk has all of its chunks in the
\* index on disk, whatever calls, failures and crashes came before; and the
\* record file is not touched by a call before the call has saved the index.
C3_RecordImpliesIndexed ==
    /\ \A s \in LoadRecord(recordFile) :
          /\ indexDir.exists
          /\ \E cp \in ChunkParams :
                /\ cp[1] > cp[2]
                /\ \A d \in ChunksAt(s, cp) : CopiesIn(d, indexDir.docs) >= 1
    /\ (call.pc # "idle" /\ recordFile # call.snapRecord)
       => (call.saves = 1 /\ indexDir = call.db)

\* A crash between the index save and the record write: the index holds the
\* chunks of the downloaded file, the record holds only a.txt.
C3_Witness ==
    /\ lastDone.outcome = "crashed"
    /\ LoadRecord(recordFile) = {"a.txt"}
    /\ IndexedChunksOf(DownloadPath) # {}
    /\ IndexedChunksOf("a.txt") # {}

\* C4: when the embedding of batch k fails, the call fails at once (no later
\* batch is embedded), the index on disk and the record on disk are as they
\* were when the call started, and the object's indexed_doc is unchanged and
\* without the source; the index is saved at most once per call, and only after
\* every batch was embedded.
C4_BatchFailureAtomic ==
    /\ (call.pc = "raised" /\ call.outcome = "embedding")
       => /\ call.embeds = call.idx + 1
          /\ call.idx < NumBatches(call.documents, call.batch_size)
          /\ call.saves = 0
          /\ indexDir = call.snapIndex
          /\ recordFile = call.snapRecord
          /\ inst[call.i].indexed_doc = call.snapMem
          /\ call.source \notin inst[call.i].indexed_doc
    /\ call.saves <= 1
    /\ call.saves = 1
       => /\ call.idx = NumBatches(call.documents, call.batch_size)
          /\ call.embeds = NumBatches(call.documents, call.batch_size)

\* The embedding fails on batch 2 of 3, with an index already on disk.
C4_Witness ==
    /\ call.pc = "raised"
    /\ call.outcome = "embedding"
    /\ call.idx = 1
    /\ NumBatches(call.documents, call.batch_size) = 3
    /\ indexDir.exists

\* C5: between calls, every source id the record file has once held is still in
\* it; and a call that indexed its source leaves the record file with what it
\* held when the call started plus that one source id.
C5_RecordMonotonic ==
    /\ call.pc = "idle" => everRecorded \subseteq LoadRecord(recordFile)
    /\ (call.pc = "returned" /\ call.outcome = "indexed")
       => LoadRecord(recordFile) = LoadRecord(call.snapRecord) \cup {call.source}

\* After a call that indexed its source: the record file lists the source, what
\* a load of the file gives is the object's indexed_doc set.
RecordWritten ==
    (call.pc = "returned" /\ call.outcome = "indexed")
    => /\ recordFile.st = "json"
       /\ call.source \in Range(recordFile.indexed_doc)
       /\ LoadRecord(recordFile) = inst[call.i].indexed_doc

\* C6: after a call that indexed source s, index_record.json lists s, loading
\* the file gives back the set that was written, and an indexer constructed
\* next over the same storage has s in its indexed_doc.
C6_DedupRoundTrip ==
    [][/\ RecordWritten'
       /\ \A j \in Instances :
             (lastDone.outcome = "indexed" /\ Construct(j))
             => lastDone.source \in inst'[j].indexed_doc]_vars

\* B indexed a.txt and the downloaded file; A was constructed after that and
\* has both.
C6_Witness ==
    /\ lastDone.outcome = "indexed"
    /\ inst["B"].outcome = "indexed"
    /\ inst["A"].alive
    /\ inst["A"].outcome = "none"
    /\ inst["A"].indexed_doc = {"a.txt", DownloadPath}

\* C7: while a call is under way the record file on disk is either the file as
\* it was when the call started or the complete new record, never missing and
\* never half-written.
C7_RecordPersistAtomic ==
    call.pc # "idle"
    => \/ recordFile = call.snapRecord
       \/ /\ recordFile.st = "json"
          /\ Range(recordFile.indexed_doc) = inst[call.i].indexed_doc

\* C8: a call that fails in resolve, validate, extract or split has made no
\* embedding call and leaves the index and the record on disk as they were.
C8_EarlyFailureFrame ==
    (/\ call.pc = "raised"
     /\ call.outcome \in {"download", "notfound", "unsupported", "config", "extract"})
    => /\ call.embeds = 0
       /\ call.saves = 0
       /\ indexDir = call.snapIndex
       /\ recordFile = call.snapRecord

\* A call with chunk_size <= chunk_overlap fails over a storage that holds an
\* index and a record.
C8_Witness ==
    /\ call.pc = "raised"
    /\ call.outcome = "config"
    /\ indexDir.exists
    /\ recordFile.st = "json"

\* C9: a call with chunk_size <= chunk_overlap does no I/O (no download, no
\* file-existence check, no load) and no embedding, and fails with the
\* chunk-size error.
C9_ConfigCheckedFirst ==
    (call.pc # "idle" /\ call.chunk_size <= call.chunk_overlap)
    => /\ call.io = {}
       /\ call.embeds = 0
       /\ call.pc = "raised" => call.outcome = "config"

\* C10: the error a caller gets for an unsupported extension differs from the
\* error a caller gets for a missing file, and both come before any embedding.
C10_InputErrorsDistinct ==
    /\ \A i, j \in Instances :
          (inst[i].outcome = "unsupported" /\ inst[j].outcome = "notfound")
          => inst[i].result # inst[j].result
    /\ (call.pc = "raised" /\ call.outcome \in {"unsupported", "notfound"})
       => call.embeds = 0

\* The source id the downloader gives for a url, the path itself otherwise.
ResolvedSourceId(path) == IF IsUrl(path) THEN file_downloader(path).source ELSE path

\* C11: from the dedup gate on, the source id of a call (checked against
\* indexed_doc, written to the chunks' metadata, added to the record) is the
\* source id the downloader returned when path is a url, and path otherwise.
C11_SourceIdResolution ==
    call.pc \in {"dedup", "load_db", "batch", "unlink", "open_w", "dump", "cleanup",
                 "returned"}
    => /\ call.source = ResolvedSourceId(call.path)
       /\ \A k \in 1..Len(call.documents) :
             call.pc # "dedup" /\ call.outcome # "skipped"
             => call.documents[k].source = ResolvedSourceId(call.path)
       /\ call.outcome = "indexed" => ResolvedSourceId(call.path) \in LoadRecord(recordFile)

\* C12: a call that returns (after indexing or after the dedup skip) has
\* deleted exactly the downloaded copy when path was a url, and nothing when
\* path was a local file.
C12_TempFileCleanup ==
    call.pc = "returned"
    => call.deleted = (IF IsUrl(call.path) THEN {call.local} ELSE {})

\* C13: every construction of an indexer succeeds; it leaves a record file on
\* disk, an empty one when the file (or its directory) was missing and the file
\* as it was otherwise; and over a missing, empty or cut-short file the
\* indexed_doc it loads is the empty set.
C13_RecordLoadTolerant ==
    [][\A i \in Instances :
          Construct(i)
          => /\ inst'[i].alive
             /\ inst'[i].outcome # "init_raised"
             /\ recordFile.st \in {"nodir", "absent"} => recordFile' = EmptyFile
             /\ recordFile.st \notin {"nodir", "absent"} => recordFile' = recordFile
             /\ recordFile.st \in {"nodir", "absent", "empty", "partial"}
                => inst'[i].indexed_doc = {}]_vars

\* The record file was cut short by a crash of the object that wrote it, and
\* that object has been constructed again over it.
C13_Witness ==
    /\ recordFile.st = "partial"
    /\ indexDir.exists
    /\ \A i \in Instances : inst[i].alive /\ inst[i].indexed_doc = {}

\* A call on a local file has returned after indexing it, all chunks in one
\* batch, over a storage that held no index when the call started.
OneBatchFirstIndex ==
    /\ call.pc = "returned"
    /\ call.outcome = "indexed"
    /\ ~IsUrl(call.path)
    /\ ~call.snapIndex.exists
    /\ NumBatches(call.documents, call.batch_size) = 1

\* The record file holds what it held when the call started and the call's
\* source id, which it did not hold.
RecordGainedOneSource ==
    /\ call.source \notin LoadRecord(call.snapRecord)
    /\ LoadRecord(recordFile) = LoadRecord(call.snapRecord) \cup {call.source}

\* C14 as stated: such a call has made exactly one embedding call, exactly one
\* merge call and exactly one index save, and has added exactly one source id
\* to the record.
C14_EndToEndCountsOneMerge ==
    OneBatchFirstIndex
    => /\ call.embeds = 1
       /\ call.merges = 1
       /\ call.saves = 1
       /\ RecordGainedOneSource

\* C14, amended: such a call has made exactly one embedding call, no merge_from
\* call (the batch's sub-index is the index that is saved), exactly one index
\* save, and has added exactly one source id to the record.
C14_EndToEndCounts ==
    OneBatchFirstIndex
    => /\ call.embeds = 1
       /\ call.merges = 0
       /\ call.saves = 1
       /\ indexDir.docs = from_documents(call.documents)
       /\ RecordGainedOneSource

\* a.txt, three chunks, batch_size 3, indexed over an empty storage.
C14_Witness ==
    /\ OneBatchFirstIndex
    /\ Len(call.documents) = 3
    /\ call.batch_size = 3

\* The documents of the first n batches of the call.
BatchesDone(n) ==
    SubSeq(call.documents, 1, Min(n * call.batch_size, Len(call.documents)))

\* C15: in the batch loop the accumulator holds the index loaded from disk (if
\* there was one) and the first idx batches, in order; and after a call that
\* indexed its source the persisted index holds the chunks it held before the
\* call and all chunks of the new source, nothing else.
C15_MergeAccumulation ==
    /\ call.pc = "batch"
       => /\ call.db.docs = call.snapIndex.docs (+) from_documents(BatchesDone(call.idx))
          /\ call.db.exists = (call.snapIndex.exists \/ call.idx > 0)
          /\ call.embeds = call.idx
    /\ (call.pc = "returned" /\ call.outcome = "indexed")
       => /\ BagToSet(indexDir.docs) = BagToSet(call.snapIndex.docs) \cup Range(call.documents)
          /\ indexDir.docs = call.snapIndex.docs (+) from_documents(call.documents)

\* Three batches were merged into an index that held another source.
C15_Witness ==
    /\ call.pc = "returned"
    /\ call.outcome = "indexed"
    /\ NumBatches(call.documents, call.batch_size) = 3
    /\ call.snapIndex.exists
    /\ BagToSet(call.snapIndex.docs) # {}
    /\ BagToSet(call.snapIndex.docs) \cap Range(call.documents) = {}

\* C16: whatever calls, crashes, restarts and retries came before, the
\* persisted index holds no chunk more than once.
C16_ExactlyOnceIndexing ==
    \A d \in BagToSet(indexDir.docs) : CopiesIn(d, indexDir.docs) <= 1

\* The loader has given no chunk, the source was not in indexed_doc, and the
\* call is past the batch loop without an exception.
EmptyExtractionSaved ==
    /\ call.pc \in {"unlink", "open_w", "dump", "cleanup", "returned"}
    /\ call.outcome # "skipped"
    /\ call.documents = <<>>

\* C17: a call whose loader gave no chunk, over a storage without an index,
\* fails at the save and leaves index, record file and indexed_doc as they
\* were; such a call gets past the save only over a storage with an index,
\* which it saves unchanged, and then records its source; so no source id is in
\* the record file unless an index is on disk.
C17_EmptyExtraction ==
    /\ (call.pc = "raised" /\ call.outcome = "nodb")
       => /\ call.documents = <<>>
          /\ ~call.snapIndex.exists
          /\ call.saves = 0
          /\ indexDir = call.snapIndex
          /\ recordFile = call.snapRecord
          /\ inst[call.i].indexed_doc = call.snapMem
    /\ EmptyExtractionSaved
       => /\ call.snapIndex.exists
          /\ call.saves = 1
          /\ call.embeds = 0
          /\ indexDir = call.snapIndex
    /\ (EmptyExtractionSaved /\ call.pc = "returned")
       => call.source \in LoadRecord(recordFile)
    /\ LoadRecord(recordFile) # {} => indexDir.exists

\* e.pdf (no chunk) failed on A over the empty storage, and was then indexed
\* and recorded over a storage that held an index.
C17_Witness ==
    /\ EmptyExtractionSaved
    /\ call.pc = "returned"
    /\ call.source = "e.pdf"
    /\ inst["A"].outcome = "nodb"
    /\ inst["A"].source = "e.pdf"

====
